---------------------------- MODULE Spec2Model ----------------------------
(***************************************************************************)
(* Retrieval core of the legal-document assistant: RAGService              *)
(* (src/src/services/rag_service.py).  A text is a sequence of tokens:     *)
(* WS is a whitespace character, a positive number is one sentence, SEP is *)
(* the context separator "\n\n---\n\n".  The empty string is << >>.        *)
(***************************************************************************)
EXTENDS Integers, Sequences, FiniteSets, TLC

(* ------------------------------ bounds -------------------------------- *)
\* number of sentences of the longest document
MaxSentences == 8
(* ------------------------- program constants -------------------------- *)
\* search_kwargs={"k": 7}
SearchK == 7
\* CrossEncoderReranker(..., top_n=3)
TopN == 3

WS == 0
SEP == 0 - 1

Min(a, b) == IF a < b THEN a ELSE b

(* ------------------------------- texts -------------------------------- *)
RECURSIVE Spaced(_)
\* the sentences 1..n separated by single spaces
Spaced(n) == IF n = 0 THEN << >>
             ELSE IF n = 1 THEN << 1 >>
             ELSE Spaced(n - 1) \o << WS, n >>

EmptyText == << >>
SpacesText == << WS, WS >>
OneText == << WS, 1, WS >>
LongText == Spaced(MaxSentences)

\* the document texts a construction is given
Docs == { EmptyText, SpacesText, OneText, LongText }

\* the questions asked
Queries == { << 1 >>, << 2, WS, 3 >> }

\* the embedding-model identifiers the configuration may name
Models == { "embedding-001", "text-embedding-004", "gemini-embedding-001" }

RECURSIVE LStrip(_)
LStrip(t) == IF t # << >> /\ Head(t) = WS THEN LStrip(Tail(t)) ELSE t

RECURSIVE RStrip(_)
RStrip(t) == IF t # << >> /\ t[Len(t)] = WS
             THEN RStrip(SubSeq(t, 1, Len(t) - 1)) ELSE t

\* str.strip()
Strip(t) == RStrip(LStrip(t))

\* hashlib.sha256(document_text.encode()).hexdigest(): a number computed from
\* the characters and their positions
\* a digest that reads only the length of the text
Sha256Short(t) == IF t = << >> THEN 1 ELSE 2 + (Len(t) % 2)

RECURSIVE Sha256(_)
Sha256(t) == IF t = << >> THEN 1
             ELSE (Sha256(SubSeq(t, 1, Len(t) - 1)) * 11 + t[Len(t)] + 1) % 1000003

\* os.path.join(CACHE_DIR, document_id)
CacheFolderPath(t) == Sha256(t)

CacheFolders == { CacheFolderPath(t) : t \in Docs }


(* ------------------------ external services --------------------------- *)
\* the vector dimension of an embedding model
Dim(m) == IF m = "gemini-embedding-001" THEN 3072 ELSE 768

Weight(m) == CASE m = "embedding-001" -> 3
               [] m = "text-embedding-004" -> 5
               [] OTHER -> 7

RECURSIVE TokenSum(_)
TokenSum(t) == IF t = << >> THEN 0
               ELSE (IF Head(t) > 0 THEN Head(t) ELSE 0) + TokenSum(Tail(t))

\* embed(text) under model m: same text and model, same vector
Embed(m, t) == [dim |-> Dim(m), val |-> (TokenSum(t) * Weight(m)) % 13]

\* squared L2 distance of two vectors of one dimension
Distance(a, b) == (a.val - b.val) * (a.val - b.val)

\* cross-encoder score(query, passage)
CEScore(q, c) == (TokenSum(q) * TokenSum(c) + TokenSum(c)) % 5

\* SemanticChunker's cut decision after sentence s under model m (the
\* thresholded distance of adjacent sentence embeddings)
BreakAfter(m, s) == IF m = "text-embedding-004" THEN s % 2 = 0 ELSE TRUE

(* ------------------------------ chunking ------------------------------ *)
IsSentence(c) == c > 0

\* the sentences of a text, in order
Sentences(t) == SelectSeq(t, IsSentence)

RECURSIVE GroupSentencesLossy(_, _, _)
\* a grouping that forgets the sentence it cuts after
GroupSentencesLossy(m, ss, cur) ==
    IF ss = << >> THEN (IF cur = << >> THEN << >> ELSE << cur >>)
    ELSE LET s == Head(ss)
             grown == IF cur = << >> THEN << s >> ELSE cur \o << WS, s >>
         IN  IF BreakAfter(m, s)
             THEN (IF cur = << >> THEN << >> ELSE << cur >>)
                  \o GroupSentencesLossy(m, Tail(ss), << >>)
             ELSE GroupSentencesLossy(m, Tail(ss), grown)

RECURSIVE GroupSentences(_, _, _)
\* SemanticChunker.split_text on more than one sentence: consecutive
\* sentences joined by one space, cut where BreakAfter says
GroupSentences(m, ss, cur) ==
    IF ss = << >> THEN (IF cur = << >> THEN << >> ELSE << cur >>)
    ELSE LET s == Head(ss)
             grown == IF cur = << >> THEN << s >> ELSE cur \o << WS, s >>
         IN  IF BreakAfter(m, s)
             THEN << grown >> \o GroupSentences(m, Tail(ss), << >>)
             ELSE GroupSentences(m, Tail(ss), grown)

\* a chunker that asks the embedding service about every text
ChunkingEmbedsAlways(t) == TRUE

\* whether chunking the text calls the embedding service
ChunkingEmbeds(t) == ~(t = << >> \/ Strip(t) = << >>) /\ Len(Sentences(t)) > 1

\* the blank check of line 70 without its text.strip() half
GetSemanticChunksNoStrip(m, t) ==
    IF t = << >> THEN << >>
    ELSE IF Len(Sentences(t)) <= 1 THEN << t >>
    ELSE GroupSentences(m, Sentences(t), << >>)

\* RAGService._get_semantic_chunks under embedding model m
GetSemanticChunks(m, t) ==
    IF t = << >> \/ Strip(t) = << >> THEN << >>
    ELSE IF Len(Sentences(t)) <= 1 THEN << t >>
    ELSE GroupSentences(m, Sentences(t), << >>)

(* ------------------------------ indexing ------------------------------ *)
NoStore == [none |-> TRUE]

\* FAISS.from_texts(text_chunks, embeddings): one vector per chunk, the
\* chunk texts in the same order, the embedding function kept for queries
FromTexts(chunks, m) ==
    [index |-> [i \in 1..Len(chunks) |-> Embed(m, chunks[i])],
     docs |-> chunks,
     embedding |-> m]

RECURSIVE InsertIdx(_, _, _)
InsertIdx(s, i, keys) ==
    IF s = << >> THEN << i >>
    ELSE IF keys[Head(s)] <= keys[i]
         THEN << Head(s) >> \o InsertIdx(Tail(s), i, keys)
         ELSE << i >> \o s

RECURSIVE SortIdx(_, _)
\* the positions 1..n ordered by ascending key, ties in position order
SortIdx(keys, n) == IF n = 0 THEN << >>
                    ELSE InsertIdx(SortIdx(keys, n - 1), n, keys)

\* a search that returns the farthest vectors first
SimilaritySearchFarthest(vs, q) ==
    LET qv == Embed(vs.embedding, q)
        n == Len(vs.index)
        dists == [i \in 1..n |-> 0 - Distance(vs.index[i], qv)]
        order == SortIdx(dists, n)
        top == SubSeq(order, 1, Min(SearchK, n))
        mismatch == \E i \in 1..n : vs.index[i].dim # qv.dim
        lost == \E j \in 1..Len(top) : top[j] > Len(vs.docs)
    IN  IF mismatch \/ lost
        THEN [raised |-> TRUE, docs |-> << >>]
        ELSE [raised |-> FALSE,
              docs |-> [j \in 1..Len(top) |-> vs.docs[top[j]]]]

\* base retriever: vector_store.as_retriever(search_kwargs={"k": 7}).
\* raised: the query vector's dimension is not the index's, or a found
\* position has no document in the docstore
SimilaritySearch(vs, q) ==
    LET qv == Embed(vs.embedding, q)
        n == Len(vs.index)
        dists == [i \in 1..n |-> Distance(vs.index[i], qv)]
        order == SortIdx(dists, n)
        top == SubSeq(order, 1, Min(SearchK, n))
        mismatch == \E i \in 1..n : vs.index[i].dim # qv.dim
        lost == \E j \in 1..Len(top) : top[j] > Len(vs.docs)
    IN  IF mismatch \/ lost
        THEN [raised |-> TRUE, docs |-> << >>]
        ELSE [raised |-> FALSE,
              docs |-> [j \in 1..Len(top) |-> vs.docs[top[j]]]]

\* a reranker that sorts and forgets top_n
RerankUncut(q, cands) ==
    LET n == Len(cands)
        keys == [i \in 1..n |-> 0 - CEScore(q, cands[i])]
        order == SortIdx(keys, n)
    IN  [j \in 1..n |-> cands[order[j]]]

\* a reranker that returns only the first sentence of each passage it keeps
RerankClipped(q, cands) ==
    LET n == Len(cands)
        keys == [i \in 1..n |-> 0 - CEScore(q, cands[i])]
        order == SortIdx(keys, n)
        top == SubSeq(order, 1, Min(TopN, n))
    IN  [j \in 1..Len(top) |-> << Head(Strip(cands[top[j]])) >>]

\* CrossEncoderReranker.compress_documents: score every candidate, sort by
\* score descending (stable), keep top_n
Rerank(q, cands) ==
    LET n == Len(cands)
        keys == [i \in 1..n |-> 0 - CEScore(q, cands[i])]
        order == SortIdx(keys, n)
        top == SubSeq(order, 1, Min(TopN, n))
    IN  [j \in 1..Len(top) |-> cands[top[j]]]

RECURSIVE JoinTrailing(_)
\* a join that writes the separator after every passage
JoinTrailing(ds) == IF ds = << >> THEN << >>
                    ELSE ds[1] \o << SEP >> \o JoinTrailing(Tail(ds))

RECURSIVE Join(_)
\* "\n\n---\n\n".join(page contents)
Join(ds) == IF ds = << >> THEN << >>
            ELSE IF Len(ds) = 1 THEN ds[1]
            ELSE ds[1] \o << SEP >> \o Join(Tail(ds))


(* ------------------------------- state -------------------------------- *)
\* the threads (Streamlit sessions) that construct and use a RAGService
Procs == { 1, 2 }

VARIABLES
    config,     \* Config.EMBEDDING_MODEL_NAME
    disk,       \* CACHE_DIR: cache folder -> its files
    pc,         \* where each thread is
    text,       \* document_text of the construction
    emb,        \* self.embeddings (the model captured at line 32)
    tmp,        \* vector_store, local to _build_and_save_vector_store
    vs,         \* self.vector_store
    retriever,  \* self.retriever is not None
    loaded,     \* self.vector_store came from FAISS.load_local
    calls,      \* embedding-service calls made by the construction
    hadSaved,   \* the text had been built and saved before this construction
    saved,      \* texts for which a construction finished build and save
    err,        \* the exception the construction met (the e of lines 39, 63)
    last,       \* the last retrieve_relevant_chunks call of the service
    session,    \* st.session_state of app.py
    upload,     \* the last run of the upload block of app.py
    pii,        \* a PIIAnonymizer and its last call
    tr,         \* OCR_ENABLED of main.py and its last translate_text call
    sq          \* the last get_suggested_questions call of a ChatService

\* the state of the retrieval service
rag == << config, disk, pc, text, emb, tmp, vs, retriever, loaded, calls,
          hadSaved, saved, err, last >>

\* the objects the application uses beside the retrieval service
lib == << pii, tr, sq >>

\* the state of the application around it
app == << session, upload, lib >>

vars == << rag, app >>

NoFile == [st |-> "absent", data |-> << >>, by |-> 0]
NoEntry == [exists |-> FALSE, faiss |-> NoFile, pkl |-> NoFile]
NoCall == [q |-> << >>, cause |-> "none", mismatch |-> FALSE, ceDown |-> FALSE,
           tries |-> 0,
           cands |-> << >>, out |-> << >>, result |-> << >>]

Building == { "check", "loadF", "loadP", "chunk", "embed",
              "mkdir", "openF", "closeF", "openP", "closeP", "init" }

(* --------------------------- uploaded files --------------------------- *)
\* The text read from a file is a sequence of characters, each known by its
\* class: "a" a letter, "#" another visible character, " " whitespace.

\* Python's None where a text may be missing
None == << "None" >>

\* n letters
Letters(n) == [i \in 1..n |-> "a"]

RECURSIVE Phrase(_)
\* words of the given lengths, one space between two words
Phrase(ws) == IF ws = << >> THEN << >>
              ELSE IF Len(ws) = 1 THEN Letters(ws[1])
              ELSE Letters(ws[1]) \o << " " >> \o Phrase(Tail(ws))

\* Config.MIN_TEXT_FOR_ANALYSIS
MIN_TEXT_FOR_ANALYSIS == 0
\* Config.MAX_DOCUMENT_LENGTH
MAX_DOCUMENT_LENGTH == 300000
\* a page counts as text when len(page_text.strip()) > 20
MinPageText == 20
\* an OCR result counts when len(ocr_text.strip()) > 10
MinOcrText == 10
\* fewer than 5 words is "Insufficient text content"
MinWords == 5

\* "[No readable text could be extracted from this PDF]"
NoPdfText == << "#" >> \o Phrase(<< 2, 8, 4, 5, 2, 9, 4, 4, 3 >>) \o << "#" >>

\* "[No readable text on this page]"
NoPageText == << "#" >> \o Phrase(<< 2, 8, 4, 2, 4, 4 >>) \o << "#" >>

\* f"[Failed to extract text from image: {image_file.name}]"
ImageFailedText(name) ==
    << "#" >> \o Phrase(<< 6, 2, 7, 4, 4, 5 >>) \o << "#", " " >> \o name \o << "#" >>

\* f"\n--- Page {i+1} ---\n"
PageHeader == << " ", "#", "#", "#", " " >> \o Letters(4)
              \o << " ", "#", " ", "#", "#", "#", " " >>

\* the positions of the characters of t that are not whitespace
Visible(t) == { i \in 1..Len(t) : t[i] # " " }

\* str.strip() on a text of character classes: from the first visible
\* character to the last
StripText(t) ==
    IF \A i \in 1..Len(t) : t[i] = " " THEN << >>
    ELSE SubSeq(t,
           CHOOSE i \in 1..Len(t) : t[i] # " " /\ \A j \in 1..(i - 1) : t[j] = " ",
           CHOOSE i \in 1..Len(t) : t[i] # " " /\ \A j \in (i + 1)..Len(t) : t[j] = " ")

\* len(text.split()): the maximal runs of visible characters, counted by
\* their first characters
CountWords(t) ==
    Cardinality({ i \in Visible(t) : i = 1 \/ t[i - 1] = " " })

IsAlpha(c) == c = "a"

\* sum(c.isalpha() for c in text)
CountAlpha(t) == Len(SelectSeq(t, IsAlpha))

\* DocumentParser.validate_extracted_text: the is_valid it returns
ValidateExtractedText(t) ==
    IF t = << >> \/ Len(StripText(t)) = 0 THEN FALSE
    ELSE IF Len(StripText(t)) < MIN_TEXT_FOR_ANALYSIS THEN FALSE
    ELSE IF CountWords(t) < MinWords THEN FALSE
    ELSE IF CountAlpha(t) * 10 < Len(t) * 3 THEN FALSE
    ELSE TRUE

\* line 55: the page has text of its own
HasText(pageText) == pageText # << >> /\ Len(StripText(pageText)) > MinPageText

RECURSIVE JoinLines(_)
\* "\n".join(final_pages)
JoinLines(ls) == IF ls = << >> THEN << >>
                 ELSE IF Len(ls) = 1 THEN ls[1]
                 ELSE ls[1] \o << " " >> \o JoinLines(Tail(ls))

\* DocumentParser._extract_text_pdf on the page texts PyPDF2 gives and on
\* what _extract_text_from_scanned_pdf gives for the whole file ("" when Cloud
\* Vision and Gemini both fail); _extract_text_from_pdf_page_ocr returns ""
ExtractTextPdf(pages, ocr) ==
    IF \A i \in 1..Len(pages) : ~HasText(pages[i])
    THEN (IF ocr # << >> /\ Len(StripText(ocr)) > MinOcrText THEN ocr ELSE NoPdfText)
    ELSE StripText(JoinLines(
             [i \in 1..Len(pages) |->
                 PageHeader \o (IF HasText(pages[i]) THEN pages[i] ELSE NoPageText)]))

\* DocumentParser._extract_text_image_pillow_fallback
ExtractTextImagePillowFallback(f) ==
    IF f.gemini = "text" THEN StripText(f.content) ELSE ImageFailedText(f.name)

\* DocumentParser._extract_text_image_cloud_vision
ExtractTextImageCloudVision(f) ==
    IF f.vision = "text" THEN f.content
    ELSE IF f.vision = "none" THEN << >>
    ELSE ExtractTextImagePillowFallback(f)

\* DocumentParser.extract_text_from_file (ocr_method 'cloud_vision')
ExtractTextFromFile(f) ==
    IF f.type = "application/pdf" THEN ExtractTextPdf(f.pages, f.ocr)
    ELSE IF f.type = "image/png" THEN ExtractTextImageCloudVision(f)
    ELSE f.content

\* Config.validate_file
ValidateFile(f) ==
    /\ ~f.big
    /\ f.type \in { "application/pdf", "image/jpeg", "image/png", "image/gif",
                    "text/plain" }

RECURSIVE CollapseSpaces(_)
\* re.sub(r'\s+', ' ', text): every run of whitespace becomes one space.  The
\* text is done in two halves; a run cut by the middle is joined again
CollapseSpaces(t) ==
    IF Len(t) <= 1 THEN t
    ELSE LET m == Len(t) \div 2
             left == CollapseSpaces(SubSeq(t, 1, m))
             right == CollapseSpaces(SubSeq(t, m + 1, Len(t)))
         IN  IF left[Len(left)] = " " /\ right[1] = " "
             THEN left \o Tail(right)
             ELSE left \o right

\* "\n\n[Document truncated for processing...]"
TruncatedMark == << " ", " ", "#" >> \o Phrase(<< 8, 9, 3 >>)
                 \o << " " >> \o Letters(10) \o << "#", "#", "#", "#" >>

\* DocumentParser.preprocess_text
PreprocessText(t) ==
    IF t = << >> THEN << >>
    ELSE LET s == StripText(CollapseSpaces(t))
         IN  IF Len(s) > MAX_DOCUMENT_LENGTH
             THEN SubSeq(s, 1, MAX_DOCUMENT_LENGTH) \o TruncatedMark
             ELSE s

RECURSIVE JoinTexts(_)
\* "\n\n".join(all_texts)
JoinTexts(ts) == IF ts = << >> THEN << >>
                 ELSE IF Len(ts) = 1 THEN ts[1]
                 ELSE ts[1] \o << " ", " " >> \o JoinTexts(Tail(ts))

\* an uploaded file: what it is and what the readers and services make of it.
\* pages: the page texts PyPDF2 extracts; ocr: the text OCR of the whole PDF
\* gives; vision: Cloud Vision's answer for an image ("text", "none" for no
\* text detected, "error"); gemini: the answer of the Gemini fallback
UploadedFile(name, type, big, corrupt, pages, ocr, content, vision, gemini) ==
    [name |-> name, type |-> type, big |-> big, corrupt |-> corrupt,
     pages |-> pages, ocr |-> ocr, content |-> content,
     vision |-> vision, gemini |-> gemini]

GoodProse == Phrase(<< 4, 5, 3, 6, 2, 7 >>)
FileName(n) == Letters(n) \o << "#" >> \o Letters(3)

TxtGood == UploadedFile(FileName(1), "text/plain", FALSE, FALSE,
                        << >>, << >>, GoodProse \o << " " >>, "none", "error")
TxtBlank == UploadedFile(FileName(2), "text/plain", FALSE, FALSE,
                         << >>, << >>, << " ", " " >>, "none", "error")
PdfUnreadable == UploadedFile(FileName(5), "application/pdf", FALSE, FALSE,
                              << << >> >>, << >>, << >>, "none", "error")
PdfCorrupt == UploadedFile(FileName(6), "application/pdf", FALSE, TRUE,
                           << >>, << >>, << >>, "none", "error")
ImgEmpty == UploadedFile(FileName(8), "image/png", FALSE, FALSE,
                         << >>, << >>, << >>, "none", "error")
ImgFailed == UploadedFile(FileName(9), "image/png", FALSE, FALSE,
                          << >>, << >>, << >>, "error", "error")
TooBig == UploadedFile(FileName(10), "text/plain", TRUE, FALSE,
                       << >>, << >>, GoodProse, "none", "error")

\* the files a user may put into the uploader
Files == { TxtGood, TxtBlank, PdfUnreadable, PdfCorrupt,
           ImgEmpty, ImgFailed, TooBig }

\* how many files one upload holds
MaxFiles == 1

\* the sequences of one to MaxFiles files of F
Uploads(F) == UNION { [1..n -> F] : n \in 1..MaxFiles }

RECURSIVE ProcessFiles(_)
\* the loop of lines 846-862 over the uploaded files: the texts accepted and
\* the errors reported, in order
ProcessFiles(files) ==
    IF files = << >> THEN [all_texts |-> << >>, errors |-> << >>]
    ELSE LET f == Head(files)
             rest == ProcessFiles(Tail(files))
             extracted == ExtractTextFromFile(f)
         IN  IF ~ValidateFile(f)
             THEN [rest EXCEPT !.errors = << "invalid" >> \o @]
             ELSE IF f.corrupt
             THEN [rest EXCEPT !.errors = << "exception" >> \o @]
             ELSE IF ~ValidateExtractedText(extracted)
             THEN [rest EXCEPT !.errors = << "could_not_process" >> \o @]
             ELSE [rest EXCEPT !.all_texts = << extracted >> \o @]

(* --------------------------- session state ---------------------------- *)
\* rag_service None, and the RAGService(doc_text) of line 874
NoneService == [none |-> TRUE, text |-> None, retriever |-> FALSE]
RAGService(docText, hasRetriever) ==
    [none |-> FALSE, text |-> docText, retriever |-> hasRetriever]

\* the defaults of init_session_state; a list of n items is 1..n -> item
Defaults ==
    [chat_history |-> << >>,
     action_outputs |-> { },
     document_processed |-> FALSE,
     document_text |-> None,
     doc_type |-> "Unknown",
     lang |-> "English",
     uploaded_files_key |-> 0,
     rag_service |-> NoneService,
     financial_rules |-> "None",
     suggested_questions |-> << >>,
     show_summary_options |-> FALSE,
     summary_result |-> "None",
     action_history |-> << >>]

\* init_session_state on the session state s: the keys s has keep their
\* values, the others get their defaults
InitSessionState(s) ==
    [k \in DOMAIN s \cup DOMAIN Defaults |->
        IF k \in DOMAIN s THEN s[k] ELSE Defaults[k]]

\* st.session_state.clear()
Cleared == [k \in { } |-> 0]

\* a reset that hands the uploader its old key
ResetAppStateSameKey(s) == InitSessionState(Cleared)

\* reset_app_state on the session state s
ResetAppState(s) ==
    LET current_key == IF "uploaded_files_key" \in DOMAIN s
                       THEN s.uploaded_files_key ELSE 0
    IN  [InitSessionState(Cleared) EXCEPT !.uploaded_files_key = current_key + 1]

\* an update that forgets the new service
SessionAfterUploadStale(s, docText, docType, ragService, questions) ==
    [s EXCEPT !.document_text = docText,
              !.doc_type = docType,
              !.document_processed = TRUE,
              !.chat_history = << >>,
              !.action_outputs = { },
              !.suggested_questions = questions]

\* st.session_state.update({...}) of lines 879-887
SessionAfterUpload(s, docText, docType, ragService, questions) ==
    [s EXCEPT !.document_text = docText,
              !.doc_type = docType,
              !.document_processed = TRUE,
              !.rag_service = ragService,
              !.chat_history = << >>,
              !.action_outputs = { },
              !.suggested_questions = questions]

\* PIIAnonymizer() (lines 9-11): both mappings empty, no call made
NoPii == [pii_mapping |-> << >>, reverse_mapping |-> << >>, text |-> << >>,
          anonymized |-> << >>, returned |-> << >>, restored |-> << >>,
          op |-> "init", calls |-> 0]

\* a string given to translate_text: its length, how many of its characters
\* strip() removes, and whether the rest is one of 'n/a', 'not found', ...
TextOf(chars, pad, na) == [chars |-> chars, pad |-> pad, na |-> na]
EmptyString == TextOf(0, 0, FALSE)

\* main.py imported with the Cloud libraries present, translate_text not
\* yet called
NoTranslation == [OCR_ENABLED |-> TRUE, pc |-> "idle", text |-> EmptyString,
                  target_language |-> "English", attempt |-> 0, chunk |-> 0,
                  cloud |-> 0, gemini |-> 0, calls |-> 0, result |-> None]

\* get_suggested_questions not yet called
NoSuggestion == [op |-> "init", language |-> "English", response |-> << >>,
                 result |-> << >>]

\* no upload block has run
NoUpload == [files |-> << >>, all_texts |-> << >>, errors |-> << >>,
             outcome |-> "none"]

\* the application as the first script run leaves it
NoApp ==
    /\ session = InitSessionState(Cleared)
    /\ upload = NoUpload
    /\ pii = NoPii
    /\ tr = NoTranslation
    /\ sq = NoSuggestion

\* import of the module (lines 21-23) and no service constructed yet
NoService ==
    /\ disk = [f \in CacheFolders |-> NoEntry]
    /\ pc = [p \in Procs |-> "idle"]
    /\ text = [p \in Procs |-> << >>]
    /\ emb = [p \in Procs |-> config]
    /\ tmp = [p \in Procs |-> NoStore]
    /\ vs = [p \in Procs |-> NoStore]
    /\ retriever = [p \in Procs |-> FALSE]
    /\ loaded = [p \in Procs |-> FALSE]
    /\ calls = [p \in Procs |-> 0]
    /\ hadSaved = [p \in Procs |-> FALSE]
    /\ saved = { }
    /\ err = [p \in Procs |-> "none"]
    /\ last = [p \in Procs |-> NoCall]

Init ==
    /\ config \in Models
    /\ NoService
    /\ NoApp

(* ---------------------------- construction ---------------------------- *)
\* RAGService(document_text), lines 27-32
Begin(p, t) ==
    /\ pc[p] \in { "idle", "ready", "raised" }
    /\ pc' = [pc EXCEPT ![p] = "check"]
    /\ text' = [text EXCEPT ![p] = t]
    /\ emb' = [emb EXCEPT ![p] = config]
    /\ tmp' = [tmp EXCEPT ![p] = NoStore]
    /\ vs' = [vs EXCEPT ![p] = NoStore]
    /\ retriever' = [retriever EXCEPT ![p] = FALSE]
    /\ loaded' = [loaded EXCEPT ![p] = FALSE]
    /\ calls' = [calls EXCEPT ![p] = 0]
    /\ hadSaved' = [hadSaved EXCEPT ![p] = t \in saved]
    /\ last' = [last EXCEPT ![p] = NoCall]
    /\ err' = [err EXCEPT ![p] = "none"]
    /\ UNCHANGED << config, disk, saved, app >>

\* a check that never finds the folder
CacheExistsNever(f) == FALSE

\* os.path.exists(cache_folder_path), line 34
CacheExists(f) == disk[f].exists

CheckCache(p) ==
    /\ pc[p] = "check"
    /\ pc' = [pc EXCEPT ![p] =
                IF CacheExists(CacheFolderPath(text[p])) THEN "loadF" ELSE "chunk"]
    /\ UNCHANGED << config, disk, text, emb, tmp, vs, retriever, loaded, calls,
                    hadSaved, saved, last, err, app >>

\* a loader that fails on every file
ReadableNever(file) == file.st = "locked"

\* a file that deserializes: written to its end
Readable(file) == file.st = "complete"

\* FAISS.load_local, first half: faiss.read_index(index.faiss); a missing or
\* truncated file raises, line 39 catches it and rebuilds
LoadFaiss(p) ==
    /\ pc[p] = "loadF"
    /\ LET file == disk[CacheFolderPath(text[p])].faiss
       IN  IF Readable(file)
           THEN /\ tmp' = [tmp EXCEPT ![p] =
                             [index |-> file.data, docs |-> << >>, embedding |-> emb[p]]]
                /\ pc' = [pc EXCEPT ![p] = "loadP"]
           ELSE /\ tmp' = [tmp EXCEPT ![p] = NoStore]
                /\ pc' = [pc EXCEPT ![p] = "chunk"]
    /\ UNCHANGED << config, disk, text, emb, vs, retriever, loaded, calls,
                    hadSaved, saved, last, err, app >>

\* FAISS.load_local, second half: pickle.load(index.pkl), then line 37 assigns
LoadPkl(p) ==
    /\ pc[p] = "loadP"
    /\ LET file == disk[CacheFolderPath(text[p])].pkl
       IN  IF Readable(file)
           THEN /\ vs' = [vs EXCEPT ![p] = [tmp[p] EXCEPT !.docs = file.data]]
                /\ loaded' = [loaded EXCEPT ![p] = TRUE]
                /\ pc' = [pc EXCEPT ![p] = "init"]
           ELSE /\ pc' = [pc EXCEPT ![p] = "chunk"]
                /\ UNCHANGED << vs, loaded >>
    /\ tmp' = [tmp EXCEPT ![p] = NoStore]
    /\ UNCHANGED << config, disk, text, emb, retriever, calls, hadSaved, saved, last, err, app >>


\* line 52: text_chunks = self._get_semantic_chunks(document_text), outside the
\* try of line 57: a failing embedding call of the chunker leaves __init__
\* as an exception; no chunks returns None (lines 53-55)
Chunk(p, embedOk) ==
    /\ pc[p] = "chunk"
    /\ LET t == text[p]
           embeds == ChunkingEmbeds(t)
           chunks == GetSemanticChunks(emb[p], t)
       IN  /\ calls' = [calls EXCEPT ![p] = IF embeds THEN @ + 1 ELSE @]
           /\ pc' = [pc EXCEPT ![p] =
                       IF embeds /\ ~embedOk THEN "raised"
                       ELSE IF chunks = << >> THEN "init"
                       ELSE "embed"]
    /\ err' = [err EXCEPT ![p] =
                 IF ChunkingEmbeds(text[p]) /\ ~embedOk THEN "chunker" ELSE @]
    /\ UNCHANGED << config, disk, text, emb, tmp, vs, retriever, loaded,
                    hadSaved, saved, last, app >>

\* line 59: FAISS.from_texts(text_chunks, self.embeddings); its exception is
\* caught at line 63 and None is returned
EmbedChunks(p, embedOk) ==
    /\ pc[p] = "embed"
    /\ calls' = [calls EXCEPT ![p] = @ + 1]
    /\ IF embedOk
       THEN /\ tmp' = [tmp EXCEPT ![p] =
                         FromTexts(GetSemanticChunks(emb[p], text[p]), emb[p])]
            /\ pc' = [pc EXCEPT ![p] = "mkdir"]
       ELSE /\ tmp' = [tmp EXCEPT ![p] = NoStore]
            /\ pc' = [pc EXCEPT ![p] = "init"]
    /\ err' = [err EXCEPT ![p] = IF embedOk THEN @ ELSE "embedding"]
    /\ UNCHANGED << config, disk, text, emb, vs, retriever, loaded,
                    hadSaved, saved, last, app >>

Folder(p) == CacheFolderPath(text[p])

\* line 61, save_local: path.mkdir(exist_ok=True, parents=True)
SaveMkdir(p) ==
    /\ pc[p] = "mkdir"
    /\ disk' = [disk EXCEPT ![Folder(p)].exists = TRUE]
    /\ pc' = [pc EXCEPT ![p] = "openF"]
    /\ UNCHANGED << config, text, emb, tmp, vs, retriever, loaded, calls,
                    hadSaved, saved, last, err, app >>

\* save_local: faiss.write_index opens index.faiss for writing (truncating)
SaveOpenFaiss(p) ==
    /\ pc[p] = "openF"
    /\ disk' = [disk EXCEPT ![Folder(p)].faiss =
                  [st |-> "partial", data |-> << >>, by |-> p]]
    /\ pc' = [pc EXCEPT ![p] = "closeF"]
    /\ UNCHANGED << config, text, emb, tmp, vs, retriever, loaded, calls,
                    hadSaved, saved, last, err, app >>

\* save_local: index.faiss written to its end
SaveCloseFaiss(p) ==
    /\ pc[p] = "closeF"
    /\ disk' = [disk EXCEPT ![Folder(p)].faiss =
                  [st |-> "complete", data |-> tmp[p].index, by |-> p]]
    /\ pc' = [pc EXCEPT ![p] = "openP"]
    /\ UNCHANGED << config, text, emb, tmp, vs, retriever, loaded, calls,
                    hadSaved, saved, last, err, app >>

\* save_local: open(index.pkl, "wb")
SaveOpenPkl(p) ==
    /\ pc[p] = "openP"
    /\ disk' = [disk EXCEPT ![Folder(p)].pkl =
                  [st |-> "partial", data |-> << >>, by |-> p]]
    /\ pc' = [pc EXCEPT ![p] = "closeP"]
    /\ UNCHANGED << config, text, emb, tmp, vs, retriever, loaded, calls,
                    hadSaved, saved, last, err, app >>

\* save_local: pickle.dump((docstore, index_to_docstore_id)) done; line 62
\* returns the store and line 41/44 assigns it
SaveClosePkl(p) ==
    /\ pc[p] = "closeP"
    /\ disk' = [disk EXCEPT ![Folder(p)].pkl =
                  [st |-> "complete", data |-> tmp[p].docs, by |-> p]]
    /\ vs' = [vs EXCEPT ![p] = tmp[p]]
    /\ tmp' = [tmp EXCEPT ![p] = NoStore]
    /\ saved' = saved \cup { text[p] }
    /\ pc' = [pc EXCEPT ![p] = "init"]
    /\ UNCHANGED << config, text, emb, retriever, loaded, calls, hadSaved, last, err, app >>

\* an except branch that returns the store it had built
SaveFailKeepsStore(p) ==
    /\ pc[p] \in { "mkdir", "openF", "closeF", "openP", "closeP" }
    /\ vs' = [vs EXCEPT ![p] = tmp[p]]
    /\ tmp' = [tmp EXCEPT ![p] = NoStore]
    /\ pc' = [pc EXCEPT ![p] = "init"]
    /\ err' = [err EXCEPT ![p] = "save"]
    /\ UNCHANGED << config, disk, text, emb, retriever, loaded, calls,
                    hadSaved, saved, last, app >>

\* save_local raises (an I/O error): line 63 catches it and None is returned,
\* although the store had been built
SaveFail(p) ==
    /\ pc[p] \in { "mkdir", "openF", "closeF", "openP", "closeP" }
    /\ tmp' = [tmp EXCEPT ![p] = NoStore]
    /\ pc' = [pc EXCEPT ![p] = "init"]
    /\ err' = [err EXCEPT ![p] = "save"]
    /\ UNCHANGED << config, disk, text, emb, vs, retriever, loaded, calls,
                    hadSaved, saved, last, app >>

\* lines 46-49 and _initialize_reranker: HuggingFaceCrossEncoder(...) is not
\* guarded, so a cross-encoder that fails to load leaves __init__ as an exception
InitReranker(p, ceOk) ==
    /\ pc[p] = "init"
    /\ IF vs[p] = NoStore
       THEN /\ retriever' = [retriever EXCEPT ![p] = FALSE]
            /\ pc' = [pc EXCEPT ![p] = "ready"]
       ELSE IF ceOk
       THEN /\ retriever' = [retriever EXCEPT ![p] = TRUE]
            /\ pc' = [pc EXCEPT ![p] = "ready"]
       ELSE /\ retriever' = [retriever EXCEPT ![p] = FALSE]
            /\ pc' = [pc EXCEPT ![p] = "raised"]
    /\ err' = [err EXCEPT ![p] =
                 IF vs[p] # NoStore /\ ~ceOk THEN "cross_encoder" ELSE @]
    /\ UNCHANGED << config, disk, text, emb, tmp, vs, loaded, calls,
                    hadSaved, saved, last, app >>

\* the thread is stopped in the middle of a construction (the script run is
\* cancelled or the process killed); what it wrote stays on disk
Interrupt(p) ==
    /\ pc[p] \in Building
    /\ pc' = [pc EXCEPT ![p] = "idle"]
    /\ text' = [text EXCEPT ![p] = << >>]
    /\ tmp' = [tmp EXCEPT ![p] = NoStore]
    /\ vs' = [vs EXCEPT ![p] = NoStore]
    /\ retriever' = [retriever EXCEPT ![p] = FALSE]
    /\ loaded' = [loaded EXCEPT ![p] = FALSE]
    /\ calls' = [calls EXCEPT ![p] = 0]
    /\ hadSaved' = [hadSaved EXCEPT ![p] = FALSE]
    /\ err' = [err EXCEPT ![p] = "none"]
    /\ UNCHANGED << config, disk, emb, saved, last, app >>

\* the application is restarted with another Config.EMBEDDING_MODEL_NAME; the
\* cache directory is kept
Redeploy(m) ==
    /\ m # config
    /\ config' = m
    /\ pc' = [p \in Procs |-> "idle"]
    /\ text' = [p \in Procs |-> << >>]
    /\ emb' = [p \in Procs |-> m]
    /\ tmp' = [p \in Procs |-> NoStore]
    /\ vs' = [p \in Procs |-> NoStore]
    /\ retriever' = [p \in Procs |-> FALSE]
    /\ loaded' = [p \in Procs |-> FALSE]
    /\ calls' = [p \in Procs |-> 0]
    /\ hadSaved' = [p \in Procs |-> FALSE]
    /\ last' = [p \in Procs |-> NoCall]
    /\ err' = [p \in Procs |-> "none"]
    /\ UNCHANGED << disk, saved, app >>

(* ----------------------------- retrieval ------------------------------ *)
\* what retrieve_relevant_chunks(query) does on the service of thread p, given
\* whether the embedding service and the cross-encoder answer
RetrieveOutcome(p, q, embedOk, ceOk) ==
    LET base == [NoCall EXCEPT !.q = q]
        found == SimilaritySearch(vs[p], q)
        out == Rerank(q, found.docs)
    IN  IF ~retriever[p]
        THEN [base EXCEPT !.cause = "no_retriever"]
        ELSE IF ~embedOk
        THEN [base EXCEPT !.cause = "embedding_error", !.tries = 1]
        ELSE IF found.raised
        THEN [base EXCEPT !.cause = "search_error",
                          !.mismatch = \E i \in 1..Len(vs[p].index) :
                                          vs[p].index[i].dim # Dim(vs[p].embedding)]
        ELSE IF found.docs = << >>
        THEN [base EXCEPT !.cause = "no_documents"]
        ELSE IF ~ceOk
        THEN [base EXCEPT !.cause = "reranker_error", !.ceDown = TRUE, !.tries = 1,
                          !.cands = found.docs]
        ELSE IF out = << >>
        THEN [base EXCEPT !.cause = "no_documents", !.cands = found.docs]
        ELSE [base EXCEPT !.cause = "ok", !.cands = found.docs, !.out = out,
                          !.result = Join(out)]

\* a retrieval that gives up its retriever when a call fails
RetrieveDropsIndex(p, q, embedOk, ceOk) ==
    /\ pc[p] = "ready"
    /\ last' = [last EXCEPT ![p] = RetrieveOutcome(p, q, embedOk, ceOk)]
    /\ retriever' = [retriever EXCEPT ![p] =
                       @ /\ RetrieveOutcome(p, q, embedOk, ceOk).tries = 0]
    /\ UNCHANGED << config, disk, pc, text, emb, tmp, vs, loaded,
                    calls, hadSaved, saved, err, app >>

\* retrieve_relevant_chunks, lines 93-111
Retrieve(p, q, embedOk, ceOk) ==
    /\ pc[p] = "ready"
    /\ last' = [last EXCEPT ![p] = RetrieveOutcome(p, q, embedOk, ceOk)]
    /\ UNCHANGED << config, disk, pc, text, emb, tmp, vs, retriever, loaded,
                    calls, hadSaved, saved, err, app >>

\* whether thread p is inside a call to the embedding service or the
\* cross-encoder: the chunker's and from_texts' embedding (lines 75, 59), the
\* cross-encoder load (line 83), a retrieval (line 100)
InExternalCall(p) ==
    \/ pc[p] = "chunk" /\ ChunkingEmbeds(text[p])
    \/ pc[p] = "embed"
    \/ pc[p] = "init" /\ vs[p] # NoStore
    \/ pc[p] = "ready" /\ retriever[p]

\* the service called never answers: no call of the code carries a timeout,
\* so the thread stays in the call
Hang(p) ==
    /\ InExternalCall(p)
    /\ pc' = [pc EXCEPT ![p] = "hung"]
    /\ UNCHANGED << config, disk, text, emb, tmp, vs, retriever, loaded, calls,
                    hadSaved, saved, err, last, app >>

(* --------------------------- specifications --------------------------- *)
\* what thread p may do, on the documents of D
Step(p, D) ==
    \/ \E t \in D : Begin(p, t)
    \/ CheckCache(p)
    \/ LoadFaiss(p)
    \/ LoadPkl(p)
    \/ \E ok \in BOOLEAN : Chunk(p, ok)
    \/ \E ok \in BOOLEAN : EmbedChunks(p, ok)
    \/ SaveMkdir(p)
    \/ SaveOpenFaiss(p)
    \/ SaveCloseFaiss(p)
    \/ SaveOpenPkl(p)
    \/ SaveClosePkl(p)
    \/ SaveFail(p)
    \/ \E ok \in BOOLEAN : InitReranker(p, ok)
    \/ Interrupt(p)
    \/ Hang(p)
    \/ \E q \in Queries, eok \in BOOLEAN, cok \in BOOLEAN : Retrieve(p, q, eok, cok)

\* one thread constructing and querying, across redeployments
Next ==
    \/ Step(1, Docs)
    \/ \E m \in Models : Redeploy(m)

Spec == Init /\ [][Next]_vars

\* the files of a cache entry are damaged outside the program: cut short or
\* garbled so that they no longer deserialize
DamageFaiss(f) ==
    /\ disk[f].faiss.st = "complete"
    /\ disk' = [disk EXCEPT ![f].faiss.st = "partial", ![f].faiss.data = << >>]
    /\ UNCHANGED << config, pc, text, emb, tmp, vs, retriever, loaded, calls,
                    hadSaved, saved, last, err, app >>

DamagePkl(f) ==
    /\ disk[f].pkl.st = "complete"
    /\ disk' = [disk EXCEPT ![f].pkl.st = "partial", ![f].pkl.data = << >>]
    /\ UNCHANGED << config, pc, text, emb, tmp, vs, retriever, loaded, calls,
                    hadSaved, saved, last, err, app >>

\* the vector payload of index.faiss is changed in place (same length, header
\* intact): the file carries no checksum and still deserializes
AlterFaiss(f) ==
    /\ disk[f].faiss.st = "complete"
    /\ disk[f].faiss.by # 0
    /\ disk' = [disk EXCEPT ![f].faiss.by = 0,
                  ![f].faiss.data =
                     [i \in 1..Len(@) |-> [@[i] EXCEPT !.val = (@ + 1) % 13]]]
    /\ UNCHANGED << config, pc, text, emb, tmp, vs, retriever, loaded, calls,
                    hadSaved, saved, last, err, app >>

\* the documents of the runs with a damaged cache
FaultDocs == { SpacesText, OneText, LongText }

\* one thread, with cache entries damaged between its steps
NextFault ==
    \/ Step(1, FaultDocs)
    \/ \E f \in CacheFolders : DamageFaiss(f)
    \/ \E f \in CacheFolders : DamagePkl(f)
    \/ \E f \in CacheFolders : AlterFaiss(f)

SpecFault == Init /\ [][NextFault]_vars

\* the document two sessions upload at the same time
RaceDocs == { LongText }

\* what a thread does in a construction that nothing disturbs
Construct(p, D) ==
    \/ \E t \in D : Begin(p, t)
    \/ CheckCache(p)
    \/ LoadFaiss(p)
    \/ LoadPkl(p)
    \/ Chunk(p, TRUE)
    \/ EmbedChunks(p, TRUE)
    \/ SaveMkdir(p)
    \/ SaveOpenFaiss(p)
    \/ SaveCloseFaiss(p)
    \/ SaveOpenPkl(p)
    \/ SaveClosePkl(p)
    \/ InitReranker(p, TRUE)

\* two threads constructing at the same time, their steps interleaved
NextRace == \E p \in Procs : Construct(p, RaceDocs)

SpecRace == Init /\ [][NextRace]_vars

(* ----------------------------- application ---------------------------- *)
\* resets of one session
MaxResets == 2
\* entries of action_history
MaxHistory == 1
\* entries of chat_history
MaxChat == 2

\* SUPPORTED_LANGUAGES the user picks from
Langs == { "English", "Hindi" }
\* classification.get("document_type", "Other")
DocTypes == { "Healthcare Document" }
\* the dashboard buttons pressed and the summaries asked for
Buttons == { "key_info", "risk" }
SummaryTypes == { "key_points" }

\* a list of n suggested questions
Questions(n) == [i \in 1..n |-> "question"]
QuestionLists == { Questions(0), Questions(4) }

\* log_action, lines 802-808
LogAction(s, type) == [s EXCEPT !.action_history = << type >> \o @]

\* what the calls of lines 870-877 may give: the document type, whether the
\* RAGService has a retriever, the suggested questions; or which call raises
UploadOutcomes ==
    [failing : { "none" }, docType : DocTypes, hasRetriever : BOOLEAN,
     questions : QuestionLists]
    \cup [failing : { "classification", "rag_service", "questions" },
          docType : { "Other" }, hasRetriever : { FALSE },
          questions : { Questions(0) }]

\* One run of the script on the upload page (lines 818-893) with `files` in the
\* uploader, for any language selected and any outcome of the calls of lines
\* 870-877; an exception there ends the run before line 879.
UploadPageRun(files) ==
    /\ ~session.document_processed
    /\ LET done == ProcessFiles(files)
           doc_text == PreprocessText(JoinTexts(done.all_texts))
           run == [files |-> files, all_texts |-> done.all_texts,
                   errors |-> done.errors, outcome |-> "none"]
       IN  \E l \in Langs :
             LET s1 == [k \in DOMAIN session \cup { "lang_select_initial" } |->
                          IF k \in { "lang", "lang_select_initial" } THEN l
                          ELSE session[k]]
             IN  IF files = << >>
                 THEN /\ session' = s1
                      /\ upload' = NoUpload
                 ELSE IF done.all_texts = << >>
                 THEN /\ session' = s1
                      /\ upload' = [run EXCEPT !.outcome = "failed"]
                 ELSE \E o \in UploadOutcomes :
                        IF o.failing # "none"
                        THEN /\ session' = s1
                             /\ upload' = [run EXCEPT !.outcome = "raised"]
                        ELSE /\ session' = SessionAfterUpload(s1, doc_text,
                                              o.docType,
                                              RAGService(doc_text, o.hasRetriever),
                                              o.questions)
                             /\ upload' = [run EXCEPT !.outcome = "complete"]
    /\ UNCHANGED << rag, lib >>

\* the "Answer Language" select box of the dashboard, line 904
SelectLanguage(l) ==
    /\ session.document_processed
    /\ session' = [session EXCEPT !.lang = l]
    /\ upload' = NoUpload
    /\ UNCHANGED << rag, lib >>

\* "Start Over", line 912: reset_app_state runs as the button's callback
StartOver ==
    /\ session.document_processed
    /\ session.uploaded_files_key < MaxResets
    /\ session' = ResetAppState(session)
    /\ upload' = NoUpload
    /\ UNCHANGED << rag, lib >>

\* one of the action buttons of lines 926-962
DashboardAction(kind) ==
    /\ session.document_processed
    /\ Len(session.action_history) < MaxHistory
    /\ session' = LogAction([session EXCEPT !.show_summary_options = FALSE,
                                            !.action_outputs = { kind }], kind)
    /\ upload' = NoUpload
    /\ UNCHANGED << rag, lib >>

\* "Summarize Document", lines 932-935
Summarize ==
    /\ session.document_processed
    /\ session' = [session EXCEPT !.show_summary_options = TRUE,
                                  !.action_outputs = { },
                                  !.summary_result = "None"]
    /\ upload' = NoUpload
    /\ UNCHANGED << rag, lib >>

\* one of the summary buttons of lines 987-1013
SummaryChoice(kind) ==
    /\ session.document_processed
    /\ session.show_summary_options
    /\ Len(session.action_history) < MaxHistory
    /\ session' = LogAction([session EXCEPT !.summary_result = kind], kind)
    /\ upload' = NoUpload
    /\ UNCHANGED << rag, lib >>

\* "Analyze Financial Rules for Simulation", lines 1108-1117
AnalyzeFinancialRules(ok) ==
    /\ session.document_processed
    /\ session.financial_rules = "None"
    /\ session' = [session EXCEPT !.financial_rules = IF ok THEN "rules" ELSE "error"]
    /\ upload' = NoUpload
    /\ UNCHANGED << rag, lib >>

\* a chat turn, lines 1171-1199: the question typed, or a suggested question
\* clicked (user_input_from_button is set, the script reruns and deletes it);
\* when the answer cannot be had the run ends after the user's entry
ChatTurn(fromButton, ok) ==
    /\ session.document_processed
    /\ fromButton => (session.chat_history = << >> /\ session.suggested_questions # << >>)
    /\ Len(session.chat_history) + 2 <= MaxChat
    /\ ok => Len(session.action_history) < MaxHistory
    /\ session' =
          IF ok
          THEN LogAction([session EXCEPT !.chat_history = @ \o << "user", "ai" >>],
                         "chat")
          ELSE [session EXCEPT !.chat_history = @ \o << "user" >>]
    /\ upload' = NoUpload
    /\ UNCHANGED << rag, lib >>

\* "Clear Chat History", lines 1201-1210
ClearChat(questions) ==
    /\ session.document_processed
    /\ Len(session.chat_history) > 0
    /\ session' = [session EXCEPT !.chat_history = << >>,
                                  !.suggested_questions = questions]
    /\ upload' = NoUpload
    /\ UNCHANGED << rag, lib >>

InitApp ==
    /\ config = "embedding-001"
    /\ NoService
    /\ NoApp

\* the whole session: uploads, dashboard actions, chat turns and resets
NextApp ==
    \/ \E files \in Uploads(Files) \cup { << >> } : UploadPageRun(files)
    \/ \E l \in Langs : SelectLanguage(l)
    \/ StartOver
    \/ \E kind \in Buttons : DashboardAction(kind)
    \/ Summarize
    \/ \E kind \in SummaryTypes : SummaryChoice(kind)
    \/ \E ok \in BOOLEAN : AnalyzeFinancialRules(ok)
    \/ \E b \in BOOLEAN, ok \in BOOLEAN : ChatTurn(b, ok)
    \/ \E qs \in QuestionLists : ClearChat(qs)

SpecApp == InitApp /\ [][NextApp]_vars

(* --------------------------- PII anonymizer --------------------------- *)
\* A text is a sequence of pieces: values that the patterns of the detectors
\* match, labels, and other text. No pattern matches across pieces.
Emails == { "a@b.com" }
Phones == { "9876543210" }
AadhaarNumbers == { "1234 5678 9012" }
\* two dates of which md5 gives the same first six hex digits, and a third
Dates == { "13/07/1990", "03/06/1999", "12-01-2020" }
Names == { "Ravi Kumar" }
Organizations == { "Apollo Hospital" }
Locations == { "Green Park, Delhi" }
NameLabel == "Patient: "
LocationLabel == "Address: "
NewLine == "\n"

\* hashlib.md5(value.encode()).hexdigest()[:6].upper()
Md5Hex6(value) ==
    CASE value = "a@b.com" -> "357A20"
      [] value = "9876543210" -> "E388C1"
      [] value = "1234 5678 9012" -> "799B6E"
      [] value = "13/07/1990" -> "FAEE5A"
      [] value = "03/06/1999" -> "FAEE5A"
      [] value = "12-01-2020" -> "0C3853"
      [] value = "Ravi Kumar" -> "CFE5A1"
      [] value = "Apollo Hospital" -> "E24E4F"
      [] value = "Green Park, Delhi" -> "1F2638"

\* _generate_placeholder
GeneratePlaceholder(pii_type, value) ==
    "[" \o pii_type \o "_" \o Md5Hex6(value) \o "]"

\* a dict is the sequence of its items in insertion order
DictKeys(d) == { d[i][1] : i \in DOMAIN d }

DictGet(d, k) == d[CHOOSE i \in DOMAIN d : d[i][1] = k][2]

\* d[k] = v
DictSet(d, k, v) ==
    IF k \in DictKeys(d)
    THEN [i \in DOMAIN d |-> IF d[i][1] = k THEN << k, v >> ELSE d[i]]
    ELSE Append(d, << k, v >>)

\* the body shared by the replace_* callbacks: a value not yet in
\* reverse_mapping gets a placeholder and both mappings are written
Register(a, pii_type, value) ==
    IF value \in DictKeys(a.reverse_mapping) THEN a
    ELSE LET placeholder == GeneratePlaceholder(pii_type, value)
         IN  [a EXCEPT !.pii_mapping = DictSet(@, placeholder, value),
                       !.reverse_mapping = DictSet(@, value, placeholder)]

IsEmail(t, i) == t[i] \in Emails
IsPhone(t, i) == t[i] \in Phones
IsAadhaar(t, i) == t[i] \in AadhaarNumbers
IsDate(t, i) == t[i] \in Dates
\* r'\bPatient:\s*([A-Z][a-z]+(?:\s+[A-Z][a-z]+)*)\b'
IsName(t, i) == i > 1 /\ t[i - 1] = NameLabel /\ t[i] \in Names
IsOrganization(t, i) == t[i] \in Organizations
\* r'\b(?:Address|Location):\s*([A-Z][A-Za-z0-9\s,.-]+)(?=\n|Patient|Doctor)'
IsLocation(t, i) ==
    /\ i > 1 /\ t[i - 1] = LocationLabel
    /\ t[i] \in Locations
    /\ i < Len(t) /\ t[i + 1] \in { NewLine, NameLabel }

\* piece i of t is a match of the patterns of the detector of pii_type
Matches(pii_type, t, i) ==
    CASE pii_type = "EMAIL" -> IsEmail(t, i)
      [] pii_type = "PHONE" -> IsPhone(t, i)
      [] pii_type = "ID" -> IsAadhaar(t, i)
      [] pii_type = "DATE" -> IsDate(t, i)
      [] pii_type = "PERSON" -> IsName(t, i)
      [] pii_type = "ORG" -> IsOrganization(t, i)
      [] pii_type = "GPE" -> IsLocation(t, i)

\* re.sub(pattern, replace, text) of the detector of pii_type, from piece i on
RECURSIVE DetectAndReplace(_, _, _)
DetectAndReplace(pii_type, a, i) ==
    IF i > Len(a.text) THEN a
    ELSE IF Matches(pii_type, a.text, i)
         THEN LET b == Register(a, pii_type, a.text[i])
              IN  DetectAndReplace(pii_type,
                      [b EXCEPT !.text[i] = DictGet(b.reverse_mapping, a.text[i])],
                      i + 1)
         ELSE DetectAndReplace(pii_type, a, i + 1)

\* anonymize(text, reset_mappings) on an anonymizer with the mappings of p
Anonymize(p, txt, reset_mappings) ==
    LET a0 == [text |-> txt,
               pii_mapping |-> IF reset_mappings THEN << >> ELSE p.pii_mapping,
               reverse_mapping |-> IF reset_mappings THEN << >>
                                   ELSE p.reverse_mapping]
        a1 == DetectAndReplace("EMAIL", a0, 1)
        a2 == DetectAndReplace("PHONE", a1, 1)
        a3 == DetectAndReplace("ID", a2, 1)
        a4 == DetectAndReplace("DATE", a3, 1)
        a5 == DetectAndReplace("PERSON", a4, 1)
        a6 == DetectAndReplace("ORG", a5, 1)
    IN  DetectAndReplace("GPE", a6, 1)

\* text.replace(placeholder, original_value)
Replace(txt, placeholder, original_value) ==
    [i \in DOMAIN txt |->
        IF txt[i] = placeholder THEN original_value ELSE txt[i]]

\* deanonymize(text, pii_mapping): the items in insertion order
RECURSIVE Deanonymize(_, _)
Deanonymize(txt, pii_mapping) ==
    IF pii_mapping = << >> THEN txt
    ELSE Deanonymize(Replace(txt, pii_mapping[1][1], pii_mapping[1][2]),
                     Tail(pii_mapping))

\* {v: k for k, v in self.pii_mapping.items()}
RECURSIVE Inverted(_)
Inverted(pii_mapping) ==
    IF pii_mapping = << >> THEN << >>
    ELSE LET n == Len(pii_mapping)
         IN  DictSet(Inverted(SubSeq(pii_mapping, 1, n - 1)),
                     pii_mapping[n][2], pii_mapping[n][1])

\* the passages the texts are made of
Passages ==
    { << "notes: none; " >>,
      << "mail ", "a@b.com", " " >>,
      << "call ", "9876543210", " " >>,
      << "id ", "1234 5678 9012", " " >>,
      << "born ", "13/07/1990", " " >>,
      << "seen ", "03/06/1999", " " >>,
      << NameLabel, "Ravi Kumar", ".", NewLine >>,
      << "clinic: ", "Apollo Hospital", ".", NewLine >>,
      << LocationLabel, "Green Park, Delhi", NewLine >>,
      << LocationLabel, "Green Park ", "12-01-2020", NewLine >>,
      << "write ", GeneratePlaceholder("EMAIL", "a@b.com"), " " >> }

MaxPassages == 2
MaxCalls == 2

RECURSIVE PiiTexts(_)
PiiTexts(n) ==
    IF n = 0 THEN { << >> }
    ELSE PiiTexts(n - 1) \cup { t \o s : t \in PiiTexts(n - 1), s \in Passages }

\* anonymizer.anonymize(text, reset_mappings)
AnonymizeCall(txt, reset_mappings) ==
    /\ pii.calls < MaxCalls
    /\ LET a == Anonymize(pii, txt, reset_mappings)
       IN  pii' = [pii_mapping |-> a.pii_mapping,
                   reverse_mapping |-> a.reverse_mapping,
                   text |-> txt, anonymized |-> a.text,
                   returned |-> a.pii_mapping, restored |-> << >>,
                   op |-> "anonymize", calls |-> pii.calls + 1]
    /\ UNCHANGED << rag, session, upload, tr, sq >>

\* anonymizer.deanonymize(anonymized, mapping) with the pair anonymize returned
DeanonymizeCall ==
    /\ pii.op = "anonymize"
    /\ pii' = [pii EXCEPT !.restored = Deanonymize(pii.anonymized, pii.returned),
                          !.op = "deanonymize"]
    /\ UNCHANGED << rag, session, upload, tr, sq >>

\* anonymizer.import_mapping(anonymizer.export_mapping())
ImportMapping ==
    /\ pii.op \in { "anonymize", "deanonymize" }
    /\ pii' = [pii EXCEPT !.reverse_mapping = Inverted(pii.pii_mapping),
                          !.op = "import"]
    /\ UNCHANGED << rag, session, upload, tr, sq >>

InitPii ==
    /\ config = "embedding-001"
    /\ NoService
    /\ NoApp

NextPii ==
    \/ \E t \in PiiTexts(MaxPassages), r \in BOOLEAN : AnonymizeCall(t, r)
    \/ DeanonymizeCall
    \/ ImportMapping

SpecPii == InitPii /\ [][NextPii]_vars

(* ------------------------------ translation --------------------------- *)
SpacesOnly == TextOf(3, 3, FALSE)
NotAvailable == TextOf(3, 0, TRUE)
Sentence == TextOf(42, 2, FALSE)
LongReport == TextOf(9000, 0, FALSE)
TranslateTexts == { EmptyString, SpacesOnly, NotAvailable, Sentence, LongReport }
TargetLanguages == { "English", "Hindi", "Kannada" }

\* len(text_str)
StrippedLen(t) == t.chars - t.pad
ChunkLimit == 5000
ChunkSize == 4000
\* the chunks of line 308, one when the text is not split
Chunks(t) ==
    IF StrippedLen(t) > ChunkLimit
    THEN (StrippedLen(t) + ChunkSize - 1) \div ChunkSize
    ELSE 1

\* range(3) with its attempts four
AttemptRangeFour == 0..3
\* range(3) of lines 301 and 325
AttemptRange == 0..2

\* what a return statement gives back
Returned(kind, t) == [kind |-> kind, text |-> t]

\* translate_text(text, target_language) up to its first external call
TranslateText(t, target_language) ==
    /\ tr.pc \in { "idle", "returned" }
    /\ LET call == [tr EXCEPT !.text = t, !.target_language = target_language,
                              !.attempt = 0, !.chunk = 0, !.cloud = 0,
                              !.gemini = 0, !.calls = 0, !.result = None]
       IN  IF t.chars = 0 \/ target_language = "English"
           THEN tr' = [call EXCEPT !.pc = "returned",
                                   !.result = Returned("original", t)]
           ELSE IF StrippedLen(t) = 0 \/ t.na
           THEN tr' = [call EXCEPT !.pc = "returned",
                                   !.result = Returned("original", t)]
           ELSE IF tr.OCR_ENABLED
           THEN tr' = [call EXCEPT !.pc = "cloud", !.cloud = 1]
           ELSE tr' = [call EXCEPT !.pc = "gemini", !.gemini = 1]
    /\ UNCHANGED << rag, session, upload, pii, sq >>

\* one translate_client.translate call of the attempt (lines 302-319): it
\* returns or raises
CloudCall(raises) ==
    /\ tr.pc = "cloud"
    /\ IF raises
       THEN IF tr.attempt + 1 \in AttemptRange
            THEN tr' = [tr EXCEPT !.calls = @ + 1, !.attempt = @ + 1,
                                  !.chunk = 0, !.cloud = @ + 1]
            ELSE tr' = [tr EXCEPT !.calls = @ + 1, !.attempt = 0,
                                  !.chunk = 0, !.pc = "gemini", !.gemini = 1]
       ELSE IF tr.chunk + 1 < Chunks(tr.text)
            THEN tr' = [tr EXCEPT !.calls = @ + 1, !.chunk = @ + 1]
            ELSE tr' = [tr EXCEPT !.calls = @ + 1, !.pc = "returned",
                                  !.result = Returned("cloud", tr.text)]
    /\ UNCHANGED << rag, session, upload, pii, sq >>

\* one model.generate_content call (lines 326-350): a translation that passes
\* the test of lines 347-349, a text that fails it, or an exception
GeminiCall(outcome) ==
    /\ tr.pc = "gemini"
    /\ IF outcome = "valid"
       THEN tr' = [tr EXCEPT !.calls = @ + 1, !.pc = "returned",
                             !.result = Returned("gemini", tr.text)]
       ELSE IF tr.attempt + 1 \in AttemptRange
       THEN tr' = [tr EXCEPT !.calls = @ + 1, !.attempt = @ + 1,
                             !.gemini = @ + 1]
       ELSE tr' = [tr EXCEPT !.calls = @ + 1, !.pc = "returned",
                             !.result = Returned("original", tr.text)]
    /\ UNCHANGED << rag, session, upload, pii, sq >>

InitTranslate ==
    /\ config = "embedding-001"
    /\ NoService
    /\ session = InitSessionState(Cleared)
    /\ upload = NoUpload
    /\ pii = NoPii
    /\ sq = NoSuggestion
    /\ \E enabled \in BOOLEAN : tr = [NoTranslation EXCEPT !.OCR_ENABLED = enabled]

NextTranslate ==
    \/ \E t \in TranslateTexts, l \in TargetLanguages : TranslateText(t, l)
    \/ \E raises \in BOOLEAN : CloudCall(raises)
    \/ \E outcome \in { "valid", "invalid", "raises" } : GeminiCall(outcome)

SpecTranslate == InitTranslate /\ [][NextTranslate]_vars

\* every external call returns or raises
FairTranslate ==
    /\ SpecTranslate
    /\ WF_vars(\E raises \in BOOLEAN : CloudCall(raises))
    /\ WF_vars(\E outcome \in { "valid", "invalid", "raises" } : GeminiCall(outcome))

(* -------------------------- suggested questions ----------------------- *)
\* lines of a model response, as character classes: "1" a digit, "-" a
\* dash, "*" a bullet, "." a full stop, "a" a letter, "?" another character
NumberedLine == << "1", ".", " " >> \o Letters(20) \o << "?" >>
ShortNumberedLine == << "1", ".", " " >> \o Letters(6) \o << "?" >>
DashLine == << "-", " " >> \o Letters(20) \o << "?" >>
IntroLine == Letters(4) \o << " " >> \o Letters(9) \o << "?" >>

MaxNumbered == 10
MaxDashed == 2

\* response.text.split('\n') of a response with an introduction or none,
\* n numbered questions, d dashed ones and s numbered lines too short to keep
ResponseLines(intro, n, d, s) ==
    (IF intro THEN << IntroLine, << >> >> ELSE << >>)
       \o [i \in 1..n |-> NumberedLine]
       \o [i \in 1..d |-> DashLine]
       \o [i \in 1..s |-> ShortNumberedLine]

Responses ==
    { ResponseLines(intro, n, d, s) :
        intro \in BOOLEAN, n \in 0..MaxNumbered, d \in 0..MaxDashed, s \in 0..1 }

\* line.split('.', 1)[-1]
AfterFirstDot(line) ==
    IF \E i \in 1..Len(line) : line[i] = "."
    THEN SubSeq(line, 1 + CHOOSE i \in 1..Len(line) :
                            line[i] = "." /\ \A j \in 1..(i - 1) : line[j] # ".",
                Len(line))
    ELSE line

MinQuestionLen == 10

\* the loop of lines 104-110 over the lines from index i on
RECURSIVE ParseQuestions(_, _)
ParseQuestions(lines, i) ==
    IF i > Len(lines) THEN << >>
    ELSE LET line == StripText(lines[i])
             question == StripText(AfterFirstDot(line))
         IN  IF line # << >> /\ line[1] \in { "1", "-", "*" }
                /\ Len(question) > MinQuestionLen
             THEN << question >> \o ParseQuestions(lines, i + 1)
             ELSE ParseQuestions(lines, i + 1)

\* questions[:8]
FirstEight(questions) ==
    SubSeq(questions, 1, IF Len(questions) < 8 THEN Len(questions) ELSE 8)

\* the list of lines 116-125
FallbackQuestions ==
    << Letters(44), Letters(41), Letters(37), Letters(46),
       Letters(49), Letters(47), Letters(31), Letters(36) >>

\* get_suggested_questions(language) when the model answers with response
GetSuggestedQuestions(language, response) ==
    /\ sq' = [op |-> "returned", language |-> language, response |-> response,
              result |-> FirstEight(ParseQuestions(response, 1))]
    /\ UNCHANGED << rag, session, upload, pii, tr >>

\* get_suggested_questions(language) when generate_content raises
GetSuggestedQuestionsFallback(language) ==
    /\ sq' = [op |-> "fallback", language |-> language, response |-> << >>,
              result |-> FallbackQuestions]
    /\ UNCHANGED << rag, session, upload, pii, tr >>

InitQuestions ==
    /\ config = "embedding-001"
    /\ NoService
    /\ NoApp

NextQuestions ==
    \/ \E l \in Langs, r \in Responses : GetSuggestedQuestions(l, r)
    \/ \E l \in Langs : GetSuggestedQuestionsFallback(l)

SpecQuestions == InitQuestions /\ [][NextQuestions]_vars

(* ------------------------------- claims ------------------------------- *)
\* the index and the passages of a vector store
Content(store) == [index |-> store.index, docs |-> store.docs]

\* what a build of text t under embedding model m gives
BuildOf(m, t) == Content(FromTexts(GetSemanticChunks(m, t), m))

Failed(call) == call.cause \in { "embedding_error", "search_error", "reranker_error" }

\* C1: a cache entry is loaded only when it was built from the same text
\* under the embedding model of the current request; on any mismatch the
\* index is rebuilt.  (The code keys the cache by sha256(text) alone.)
C1_ReuseOnlyOnExactMatch ==
    \A p \in Procs : loaded[p] => Content(vs[p]) = BuildOf(emb[p], text[p])

\* C2: a corrupt or partially written cache entry is treated as a miss: an
\* index that was loaded from the cache is the index some complete build of
\* that text saved.
C2_CorruptEntryIsMiss ==
    \A p \in Procs : loaded[p] =>
        \E m \in Models : Content(vs[p]) = BuildOf(m, text[p])

\* C3: once a construction has built and saved the index of a text, every
\* later construction with the same text loads it from the cache and makes
\* no embedding call.
C3_BuiltOnceThenLoaded ==
    \A p \in Procs : hadSaved[p] =>
        /\ calls[p] = 0
        /\ pc[p] \in { "init", "ready", "raised" } => loaded[p]

C3_Witness ==
    \E p \in Procs : /\ hadSaved[p] /\ pc[p] = "ready" /\ loaded[p]
                     /\ retriever[p] /\ calls[p] = 0

\* C4: no query meets an index of another dimension than the query vector's:
\* a dimension mismatch never happens inside retrieve_relevant_chunks.
C4_NoDimensionMismatch ==
    \A p \in Procs : ~last[p].mismatch

\* C5: a retrieval that failed (embedding, search or cross-encoder error)
\* never returns what "no relevant context" returns, the empty string.
C5_FailureIsNotNoContext ==
    \A p \in Procs : Failed(last[p]) => last[p].result # << >>

\* C6: for blank or whitespace-only text chunking yields no chunk, no index is
\* built or saved, the construction does not raise, and every retrieval
\* returns the empty result without an error.
C6_BlankTextNoIndex ==
    \A p \in Procs :
        (pc[p] # "idle" /\ (text[p] = << >> \/ Strip(text[p]) = << >>)) =>
            /\ GetSemanticChunks(emb[p], text[p]) = << >>
            /\ vs[p] = NoStore /\ tmp[p] = NoStore /\ ~retriever[p]
            /\ calls[p] = 0
            /\ ~disk[Folder(p)].exists
            /\ pc[p] # "raised"
            /\ last[p].cause \in { "none", "no_retriever" }
            /\ last[p].result = << >>

C6_Witness ==
    \E p \in Procs : /\ pc[p] = "ready" /\ text[p] = SpacesText
                     /\ last[p].cause = "no_retriever" /\ last[p].q # << >>

\* C7: with the cross-encoder unavailable the construction still succeeds and
\* a retrieval returns the first top-n candidates in similarity order.
C7_RerankerFallback ==
    \A p \in Procs :
        /\ ~(pc[p] = "raised" /\ vs[p] # NoStore)
        /\ last[p].ceDown =>
              /\ last[p].cause = "ok"
              /\ last[p].out = SubSeq(last[p].cands, 1, Min(TopN, Len(last[p].cands)))

Quiet == \A p \in Procs : pc[p] \in { "idle", "ready" }

\* C8: when concurrent constructions of one uncached document have all
\* ended, each holds the index a single build gives and the cache entry is
\* complete, both of its files written by the same construction.
C8_RaceLeavesOneWritersEntry ==
    Quiet =>
        /\ \A p \in Procs : pc[p] = "ready" =>
              /\ retriever[p]
              /\ Content(vs[p]) = BuildOf(emb[p], text[p])
        /\ \A f \in CacheFolders : disk[f].exists =>
              /\ disk[f].faiss.st = "complete"
              /\ disk[f].pkl.st = "complete"
              /\ disk[f].faiss.by = disk[f].pkl.by

\* C9: similarity search hands at most k = 7 candidates to the reranker, at
\* most n = 3 passages come back (n <= k), highest cross-encoder score first.
C9_AtMostKThenTopN ==
    /\ TopN <= SearchK
    /\ \A p \in Procs :
          LET c == last[p]
          IN  /\ Len(c.cands) <= SearchK
              /\ Len(c.out) <= TopN
              /\ Len(c.out) <= Len(c.cands)
              /\ \A i, j \in 1..Len(c.out) :
                    i < j => CEScore(c.q, c.out[i]) >= CEScore(c.q, c.out[j])

C9_Witness ==
    \E p \in Procs : /\ retriever[p]
                     /\ Len(vs[p].index) > SearchK
                     /\ Len(last[p].cands) = SearchK
                     /\ Len(last[p].out) = TopN

\* C10: every passage returned after reranking is one of the candidates of
\* the similarity search, unaltered, and none is returned twice.
C10_RerankedSubsetOfCandidates ==
    \A p \in Procs :
        LET c == last[p]
        IN  /\ \A j \in 1..Len(c.out) : \E i \in 1..Len(c.cands) : c.cands[i] = c.out[j]
            /\ \A i, j \in 1..Len(c.out) : i # j => c.out[i] # c.out[j]

C10_Witness ==
    \E p \in Procs :
        LET c == last[p]
        IN  /\ c.cause = "ok"
            /\ Len(c.cands) > Len(c.out)
            /\ c.out # SubSeq(c.cands, 1, Len(c.out))
            /\ \E j \in 1..Len(c.out) : Len(c.out[j]) > 1

\* what the cache entry of text t holds
EntryContent(t) == [index |-> disk[CacheFolderPath(t)].faiss.data,
                    docs |-> disk[CacheFolderPath(t)].pkl.data]

\* C11: build-or-load is idempotent: once a construction has built and saved
\* the index of a text, no later construction changes the cache entry, and
\* every later construction that ends with an index holds the chunks and
\* vectors the first one saved.
C11_BuildOrLoadIdempotent ==
    [][\A t \in saved :
          /\ disk'[CacheFolderPath(t)] = disk[CacheFolderPath(t)]
          /\ \A p \in Procs :
                (pc'[p] \in { "init", "ready" } /\ text'[p] = t /\ vs'[p] # NoStore)
                    => Content(vs'[p]) = EntryContent(t)]_vars

C11_Witness ==
    \E p \in Procs : /\ pc[p] = "ready" /\ hadSaved[p] /\ vs[p] # NoStore
                     /\ text[p] = LongText
                     /\ Content(vs[p]) = EntryContent(text[p])

\* C12: retrieve_relevant_chunks is read-only: a retrieval, whether it
\* succeeds, finds nothing or fails, leaves the vector store, the retriever
\* and the cache directory as they were.
C12_RetrieveIsReadOnly ==
    [][\A p \in Procs :
          (pc[p] = "ready" /\ pc'[p] = "ready")
              => /\ vs'[p] = vs[p]
                 /\ retriever'[p] = retriever[p]
                 /\ disk' = disk]_vars

C12_Witness ==
    \E p \in Procs : /\ pc[p] = "ready" /\ retriever[p] /\ vs[p] # NoStore
                     /\ Failed(last[p])

\* C13: an operation is reported failed only after the failing service call
\* was tried again at least once: one transient failure does not fail a
\* retrieval or an index build.
C13_FailureOnlyAfterRetries ==
    \A p \in Procs :
        /\ last[p].cause \in { "embedding_error", "reranker_error" }
              => last[p].tries >= 2
        /\ (err[p] = "embedding" /\ ~ChunkingEmbeds(text[p])) => calls[p] >= 2

\* C14: a thread inside a call to a service that never answers has a step
\* left to take (the timeout that ends the call as "service unavailable").
C14_EveryCallReturns ==
    \A p \in Procs : pc[p] = "hung" => ENABLED Step(p, Docs)

\* C15: the cache folder is a function of the text alone and different texts
\* have different folders: every complete file of a folder was written from
\* the folder's own text, and an index loaded from the cache is a build of
\* the text of the construction.
C15_FolderIdentifiesText ==
    /\ \A t1, t2 \in Docs : t1 # t2 => CacheFolderPath(t1) # CacheFolderPath(t2)
    /\ \A t \in Docs :
          LET e == disk[CacheFolderPath(t)]
          IN  /\ e.faiss.st = "complete"
                    => \E m \in Models : e.faiss.data = BuildOf(m, t).index
              /\ e.pkl.st = "complete"
                    => \E m \in Models : e.pkl.data = BuildOf(m, t).docs
    /\ \A p \in Procs : loaded[p] =>
          \E m \in Models : vs[p].docs = GetSemanticChunks(m, text[p])

C15_Witness ==
    /\ OneText \in saved /\ LongText \in saved
    /\ \E p \in Procs : loaded[p] /\ text[p] = LongText /\ pc[p] = "ready"


RECURSIVE Flatten(_)
\* the chunks one after the other, a space between two chunks
Flatten(chunks) == IF chunks = << >> THEN << >>
                   ELSE IF Len(chunks) = 1 THEN chunks[1]
                   ELSE chunks[1] \o << WS >> \o Flatten(Tail(chunks))

Blank(t) == t = << >> \/ Strip(t) = << >>

\* C16: for every text that is not blank _get_semantic_chunks returns at
\* least one chunk, no chunk is blank, and the chunks in order hold every
\* sentence of the text; the store built from them holds exactly these chunks,
\* and a construction of such a text ends without index only after an error.
C16_ChunksCoverText ==
    \A p \in Procs :
        (pc[p] \notin { "idle", "check", "loadF", "loadP" } /\ ~Blank(text[p])) =>
            LET chunks == GetSemanticChunks(emb[p], text[p])
            IN  /\ Len(chunks) >= 1
                /\ \A i \in 1..Len(chunks) : ~Blank(chunks[i])
                /\ Sentences(Flatten(chunks)) = Sentences(text[p])
                /\ tmp[p] # NoStore => tmp[p].docs = chunks
                /\ (pc[p] = "ready" /\ vs[p] = NoStore) => err[p] # "none"

C16_Witness ==
    \E p \in Procs : /\ pc[p] = "mkdir" /\ text[p] = LongText
                     /\ emb[p] = "text-embedding-004"
                     /\ Len(tmp[p].docs) > 1
                     /\ \E i \in 1..Len(tmp[p].docs) : Len(Sentences(tmp[p].docs[i])) > 1

\* the service of thread p built its index itself and the last query is the
\* text of one of its chunks
AskedOwnChunk(p) ==
    /\ ~loaded[p]
    /\ last[p].cause \in { "ok", "reranker_error" }
    /\ \E i \in 1..Len(vs[p].docs) : vs[p].docs[i] = last[p].q

\* C17 as claimed: a query equal to the text of a chunk of the built index
\* returns that chunk as the first passage.
C17_ChunkQueryIsTop1 ==
    \A p \in Procs :
        (AskedOwnChunk(p) /\ last[p].cause = "ok") => last[p].out[1] = last[p].q

\* C17 amended: a query equal to the text of a chunk of the built index makes
\* the similarity search return that chunk as the first candidate handed to
\* the reranker (which may then put another passage first).
C17_ChunkQueryIsFirstCandidate ==
    \A p \in Procs : AskedOwnChunk(p) => last[p].cands[1] = last[p].q

C17_Witness ==
    \E p \in Procs : /\ AskedOwnChunk(p) /\ last[p].cause = "ok"
                     /\ last[p].cands[1] = last[p].q
                     /\ last[p].out[1] # last[p].q

\* C18: a service whose build failed because the embedding service was
\* unavailable is in another state than the service of an empty document
\* (vector_store None, retriever None).
C18_EmptyDistinctFromUnavailable ==
    \A p \in Procs :
        (pc[p] = "ready" /\ err[p] = "embedding")
            => << vs[p], retriever[p] >> # << NoStore, FALSE >>

RECURSIVE CountSep(_)
CountSep(s) == IF s = << >> THEN 0
               ELSE (IF Head(s) = SEP THEN 1 ELSE 0) + CountSep(Tail(s))

RECURSIVE SplitSep(_, _)
\* the pieces of s between separators; cur is the piece being read
SplitSep(s, cur) == IF s = << >> THEN << cur >>
                    ELSE IF Head(s) = SEP THEN << cur >> \o SplitSep(Tail(s), << >>)
                    ELSE SplitSep(Tail(s), cur \o << Head(s) >>)

\* C19: a successful retrieval returns its m >= 1 passages in ranked order
\* with m - 1 separators between them; with no retriever, zero passages or
\* an exception it returns the empty string; it never raises.
C19_ContextIsJoinedPassages ==
    \A p \in Procs :
        LET c == last[p]
        IN  /\ c.cause \in { "none", "no_retriever", "no_documents", "ok",
                            "embedding_error", "search_error", "reranker_error" }
            /\ c.cause = "ok" =>
                  /\ Len(c.out) >= 1
                  /\ CountSep(c.result) = Len(c.out) - 1
                  /\ SplitSep(c.result, << >>) = c.out
            /\ c.cause # "ok" => c.result = << >>

C19_Witness ==
    \E p \in Procs : /\ last[p].cause = "ok" /\ Len(last[p].out) = TopN
                     /\ CountSep(last[p].result) = TopN - 1

\* C20: when FAISS.from_texts or save_local raised, the construction does not
\* raise and keeps no index: vector_store and retriever are None and every
\* retrieval returns the empty string.
C20_BuildOrSaveFailureGivesNone ==
    \A p \in Procs :
        err[p] \in { "embedding", "save" } =>
            /\ pc[p] \in { "init", "ready" }
            /\ vs[p] = NoStore /\ tmp[p] = NoStore /\ ~retriever[p]
            /\ last[p].cause \in { "none", "no_retriever" }
            /\ last[p].result = << >>

C20_Witness ==
    \E p \in Procs : /\ err[p] = "save" /\ pc[p] = "ready"
                     /\ disk[Folder(p)].faiss.st = "complete"
                     /\ last[p].cause = "no_retriever"


\* C21: a construction with blank or whitespace-only text makes no embedding
\* call and leaves every cache entry as it was, however many constructions
\* came before it, and it ends with retriever None and without raising.
C21_BlankConstructionTouchesNothing ==
    [][\A p \in Procs :
          (Blank(text'[p]) /\ pc'[p] \in Building \cup { "ready", "raised", "hung" })
              => /\ disk' = disk
                 /\ calls'[p] = 0
                 /\ pc'[p] \notin { "raised", "hung" }
                 /\ pc'[p] = "ready" => (~retriever'[p] /\ vs'[p] = NoStore)]_vars

C21_Witness ==
    \E p \in Procs : /\ pc[p] = "ready" /\ text[p] = SpacesText
                     /\ ~retriever[p] /\ calls[p] = 0
                     /\ LongText \in saved
                     /\ disk[CacheFolderPath(LongText)].pkl.st = "complete"
                     /\ ~disk[Folder(p)].exists


\* nothing could be read from the file: the extraction gives no visible
\* character, or the message an extractor writes in place of the text
Unreadable(f) ==
    LET t == ExtractTextFromFile(f)
    IN  StripText(t) = << >> \/ t = NoPdfText \/ t = ImageFailedText(f.name)

\* C22: a file from which no text could be extracted is never accepted as
\* document content, and an upload in which every file is such a file leaves
\* document_processed False and builds no index.
C22_UnreadableFileRejected ==
    /\ \A i \in 1..Len(upload.files) :
          (ValidateFile(upload.files[i]) /\ ~upload.files[i].corrupt
              /\ Unreadable(upload.files[i]))
             => \A j \in 1..Len(upload.all_texts) :
                   upload.all_texts[j] # ExtractTextFromFile(upload.files[i])
    /\ (upload.files # << >> /\ \A i \in 1..Len(upload.files) :
                                  Unreadable(upload.files[i]))
          => (~session.document_processed /\ session.rag_service = NoneService)


\* C23: document_processed is True only while document_text holds a text and
\* rag_service is the service constructed from exactly that text; an upload
\* from which no valid text came leaves document_processed False and
\* document_text, doc_type and rag_service as they were.
C23_ProcessedMeansIndexedText ==
    [][/\ session'.document_processed
            => /\ session'.document_text # None
               /\ ~session'.rag_service.none
               /\ session'.rag_service.text = session'.document_text
       /\ (upload'.files # << >> /\ upload'.all_texts = << >>)
            => /\ ~session'.document_processed
               /\ session'.document_text = session.document_text
               /\ session'.doc_type = session.doc_type
               /\ session'.rag_service = session.rag_service]_vars

C23_Witness ==
    /\ session.document_processed
    /\ session.uploaded_files_key = 1
    /\ upload.outcome = "complete"
    /\ Len(upload.files) = MaxFiles
    /\ session.rag_service.text = session.document_text
    /\ session.document_text = PreprocessText(JoinTexts(upload.all_texts))

\* C24: reset_app_state leaves exactly the keys of init_session_state, each
\* at its default value, except uploaded_files_key, which is one more than
\* it was before the reset.
C24_ResetRestoresDefaultsAndBumpsKey ==
    [][(session.document_processed /\ ~session'.document_processed)
         => /\ DOMAIN session' = DOMAIN Defaults
            /\ \A k \in DOMAIN Defaults \ { "uploaded_files_key" } :
                  session'[k] = Defaults[k]
            /\ session'.uploaded_files_key = session.uploaded_files_key + 1
            /\ session'.uploaded_files_key > session.uploaded_files_key]_vars

C24_Witness ==
    /\ session.uploaded_files_key = MaxResets
    /\ ~session.document_processed
    /\ session.document_text = None
    /\ session.rag_service = NoneService
    /\ session.chat_history = << >>
    /\ "lang_select_initial" \notin DOMAIN session

\* C25: deanonymize applied to the anonymized text with the mapping that
\* anonymize returned gives back the original text exactly, also when a
\* detected value lies inside another (a date inside an address).
C25_RoundTripRestoresText ==
    pii.op = "deanonymize" => pii.restored = pii.text

\* C26: distinct PII values never share a placeholder, and after any sequence
\* of anonymize calls (and imports of the exported mapping) pii_mapping and
\* reverse_mapping are inverse to each other.
C26_MappingsMutuallyInverse ==
    /\ \A i \in DOMAIN pii.pii_mapping :
          /\ pii.pii_mapping[i][2] \in DictKeys(pii.reverse_mapping)
          /\ DictGet(pii.reverse_mapping, pii.pii_mapping[i][2])
                = pii.pii_mapping[i][1]
    /\ \A i \in DOMAIN pii.reverse_mapping :
          /\ pii.reverse_mapping[i][2] \in DictKeys(pii.pii_mapping)
          /\ DictGet(pii.pii_mapping, pii.reverse_mapping[i][2])
                = pii.reverse_mapping[i][1]
    /\ \A i, j \in DOMAIN pii.reverse_mapping :
          pii.reverse_mapping[i][2] = pii.reverse_mapping[j][2] => i = j

\* the attempts and the result of a translate_text call are within what the
\* two loops allow
TranslateWithinBounds ==
    /\ tr.pc \in { "idle", "cloud", "gemini", "returned" }
    /\ tr.cloud <= 3 /\ tr.gemini <= 3
    /\ tr.calls <= 3 * Chunks(tr.text) + 3
    /\ tr.cloud > 0 => tr.OCR_ENABLED
    /\ (tr.gemini > 0 /\ tr.OCR_ENABLED) => tr.cloud = 3
    /\ tr.pc = "returned" =>
          /\ tr.result \in { Returned(k, tr.text) : k \in { "original", "cloud", "gemini" } }
          /\ (tr.text.chars = 0 \/ tr.target_language = "English")
                => (tr.calls = 0 /\ tr.result = Returned("original", tr.text))
          /\ (tr.result.kind = "original" /\ tr.calls > 0)
                => (tr.gemini = 3 /\ (tr.OCR_ENABLED => tr.cloud = 3))

\* C27: a translate_text call on a string ends with a return: after at most
\* 3 Cloud Translation attempts and then at most 3 Gemini attempts, with the
\* original text when no attempt gave a valid translation, and with the
\* input and no external call for English or an empty input.
C27_TranslateReturnsWithinSixAttempts ==
    /\ []TranslateWithinBounds
    /\ [][(tr.pc = "gemini" /\ tr'.pc = "returned" /\ tr'.result.kind # "gemini")
             => (tr.gemini = 3 /\ tr'.result = Returned("original", tr.text))]_vars
    /\ (tr.pc \in { "cloud", "gemini" }) ~> (tr.pc = "returned")

C27_Witness ==
    /\ tr.pc = "returned"
    /\ tr.OCR_ENABLED
    /\ tr.text = LongReport
    /\ tr.target_language = "Kannada"
    /\ tr.cloud = 3 /\ tr.gemini = 3
    /\ tr.calls = 8
    /\ tr.result = Returned("original", LongReport)

\* C28: get_suggested_questions returns exactly 8 questions, whatever lines
\* the response of the model holds and also when the fallback list is used.
C28_AlwaysEightQuestions ==
    sq.op \in { "returned", "fallback" } => Len(sq.result) = 8

=============================================================================
